---- MODULE Spec2Model ----
(***************************************************************************)
(* colorkit: the ColorMap class of src/src/index.js (and its documented    *)
(* twin src/unnamed/part_000): a store of four parallel arrays and an      *)
(* input range, and interpolateColor with its seeded linear scan, blend,   *)
(* clamp and format conversion.                                            *)
(*                                                                         *)
(* JavaScript numbers are modelled as exact rationals [n, d] with d > 0,   *)
(* extended with the non-finite values the code can produce by dividing    *)
(* by zero (NaN, +Infinity, -Infinity) and with `undefined`, the value of  *)
(* an out-of-range array read.  Binary floating-point rounding error is    *)
(* not modelled: arithmetic on finite values is exact.                     *)
(***************************************************************************)
EXTENDS Integers, Sequences, FiniteSets, TLC

VARIABLES x_values, r_values, g_values, b_values, x_range, last, history

vars == <<x_values, r_values, g_values, b_values, x_range, last, history>>

store == <<x_values, r_values, g_values, b_values>>

----------------------------------------------------------------------------
(* Numbers *)

NaN == [n |-> 0, d |-> 0]
PInf == [n |-> 1, d |-> 0]
NInf == [n |-> -1, d |-> 0]
Undef == [n |-> 0, d |-> -1]

AbsInt(k) == IF k < 0 THEN -k ELSE k

SignInt(k) == IF k < 0 THEN -1 ELSE IF k > 0 THEN 1 ELSE 0

RECURSIVE GCD(_, _)
GCD(a, b) == IF b = 0 THEN a ELSE GCD(b, a % b)

\* the rational n/d (d > 0) in lowest terms
Rat(n, d) ==
  LET g == GCD(AbsInt(n), d) IN [n |-> n \div g, d |-> d \div g]

Int2Num(k) == [n |-> k, d |-> 1]

Zero == Int2Num(0)
One == Int2Num(1)

IsFinite(a) == a.d > 0

\* ToNumber: undefined becomes NaN in arithmetic and in comparisons
ToNumber(a) == IF a = Undef THEN NaN ELSE a

IsNaN(a) == ToNumber(a) = NaN

\* sign of a finite or infinite number, with 0 counted as +0
SignPos(a) == IF a.n < 0 THEN -1 ELSE 1

InfOf(s) == IF s < 0 THEN NInf ELSE PInf

Neg(a) == IF IsNaN(a) THEN NaN ELSE [n |-> -a.n, d |-> a.d]

Add(a, b) ==
  IF IsNaN(a) \/ IsNaN(b) THEN NaN
  ELSE IF IsFinite(a) /\ IsFinite(b) THEN Rat(a.n * b.d + b.n * a.d, a.d * b.d)
  ELSE IF IsFinite(a) THEN b
  ELSE IF IsFinite(b) THEN a
  ELSE IF a = b THEN a ELSE NaN

Sub(a, b) == Add(a, Neg(b))

Mul(a, b) ==
  IF IsNaN(a) \/ IsNaN(b) THEN NaN
  ELSE IF IsFinite(a) /\ IsFinite(b) THEN Rat(a.n * b.n, a.d * b.d)
  ELSE IF a.n = 0 \/ b.n = 0 THEN NaN
  ELSE InfOf(SignInt(a.n) * SignInt(b.n))

Div(a, b) ==
  IF IsNaN(a) \/ IsNaN(b) THEN NaN
  ELSE IF IsFinite(a) /\ IsFinite(b) THEN
    IF b.n # 0 THEN Rat(a.n * b.d * SignInt(b.n), a.d * AbsInt(b.n))
    ELSE IF a.n = 0 THEN NaN ELSE InfOf(SignInt(a.n))
  ELSE IF IsFinite(b) THEN InfOf(SignInt(a.n) * SignPos(b))
  ELSE IF IsFinite(a) THEN Zero
  ELSE NaN

\* a < b; false as soon as one side is NaN or undefined
Lt(a, b) ==
  IF IsNaN(a) \/ IsNaN(b) THEN FALSE
  ELSE IF ~IsFinite(a) /\ ~IsFinite(b) THEN a.n < b.n
  ELSE IF ~IsFinite(a) THEN a.n < 0
  ELSE IF ~IsFinite(b) THEN b.n > 0
  ELSE a.n * b.d < b.n * a.d

Le(a, b) == ~IsNaN(a) /\ ~IsNaN(b) /\ (a = b \/ Lt(a, b))

\* a === b on numbers: NaN is not equal to itself
StrictEq(a, b) == ~IsNaN(a) /\ ~IsNaN(b) /\ a = b

MathAbs(a) == IF IsNaN(a) THEN NaN ELSE [n |-> AbsInt(a.n), d |-> a.d]

MathCeil(a) ==
  IF IsNaN(a) THEN NaN
  ELSE IF IsFinite(a) THEN Int2Num(-((-a.n) \div a.d))
  ELSE a

\* a conversion that truncates instead of rounding
MathRoundTruncates(a) ==
  IF IsNaN(a) THEN NaN
  ELSE IF IsFinite(a) THEN Int2Num(a.n \div a.d)
  ELSE a

\* Math.round: nearest integer, a tie going up (floor(a + 1/2))
MathRound(a) ==
  IF IsNaN(a) THEN NaN
  ELSE IF IsFinite(a) THEN Int2Num((2 * a.n + a.d) \div (2 * a.d))
  ELSE a

\* arr[i] of a JavaScript array: undefined unless i is an index of arr
Get(arr, i) ==
  IF IsFinite(i) /\ i.d = 1 /\ i.n >= 0 /\ i.n < Len(arr) THEN arr[i.n + 1]
  ELSE Undef

----------------------------------------------------------------------------
(* Color formats and the registry *)

DOUBLE == "double"
HEX == "hex"
RGB == "rgb"

ColorFormat == {DOUBLE, HEX, RGB}

\* a raw series entry [x, [r, g, b]]; hasColor = FALSE is an entry whose
\* second element is missing, so that reading values[i][1][0] throws
Entry(x, c) == [x |-> x, hasColor |-> TRUE, c |-> c]

\* the built-in series of rainbow.js, reduced to five control points
rainbow ==
  << Entry(Rat(0, 4), <<Rat(1, 2), Rat(0, 1), Rat(1, 1)>>),
     Entry(Rat(1, 4), <<Rat(0, 1), Rat(7, 10), Rat(7, 10)>>),
     Entry(Rat(2, 4), <<Rat(1, 2), Rat(1, 1), Rat(707, 1000)>>),
     Entry(Rat(3, 4), <<Rat(1, 1), Rat(7, 10), Rat(2, 5)>>),
     Entry(Rat(4, 4), <<Rat(1, 1), Rat(0, 1), Rat(0, 1)>>) >>

\* own keys of ColorSeriesTable, as Object.keys lists them
ListColorSeries == {"rainbow"}

\* members ColorSeriesTable inherits from Object.prototype
InheritedKeys == {"toString"}

\* name in ColorSeriesTable: the in operator also finds inherited members
InColorSeriesTable(name) == name \in ListColorSeries \cup InheritedKeys

\* ColorSeriesTable[name]; an inherited member is a function, which has no
\* enumerable property: the loader's for-in loop over it runs zero times
ColorSeriesTable(name) == IF name = "rainbow" THEN rainbow ELSE <<>>

----------------------------------------------------------------------------
(* The store: each array field is null or an array *)

Null == [isNull |-> TRUE, arr |-> <<>>]

Arr(s) == [isNull |-> FALSE, arr |-> s]

\* the for-in loop of inputColorSeries from entry i on; the push of x
\* happens before the read of the colour triplet can throw
RECURSIVE SplitValues(_, _, _)
SplitValues(values, i, acc) ==
  IF i > Len(values) THEN acc
  ELSE LET e == values[i]
           xs == Append(acc.x, e.x)
       IN IF ~e.hasColor THEN [acc EXCEPT !.x = xs, !.status = "TypeError"]
          ELSE SplitValues(values, i + 1,
                 [x |-> xs, r |-> Append(acc.r, e.c[1]),
                  g |-> Append(acc.g, e.c[2]), b |-> Append(acc.b, e.c[3]),
                  status |-> "ok"])

\* the loop starts one entry late: the first control point is not stored
InputColorSeriesSkipsFirst(values) ==
  SplitValues(values, 2,
    [x |-> <<>>, r |-> <<>>, g |-> <<>>, b |-> <<>>, status |-> "ok"])

\* the four lists inputColorSeries leaves behind, and how it ended
InputColorSeries(values) ==
  SplitValues(values, 1,
    [x |-> <<>>, r |-> <<>>, g |-> <<>>, b |-> <<>>, status |-> "ok"])

----------------------------------------------------------------------------
(* Format conversion *)

HexDigits ==
  <<"0", "1", "2", "3", "4", "5", "6", "7",
    "8", "9", "a", "b", "c", "d", "e", "f">>

RECURSIVE NatToString16(_)
NatToString16(m) ==
  IF m < 16 THEN <<HexDigits[m + 1]>>
  ELSE Append(NatToString16(m \div 16), HexDigits[(m % 16) + 1])

\* val.toString(16) of a rounded number, as a sequence of characters
ToString16(v) ==
  IF IsNaN(v) THEN <<"N", "a", "N">>
  ELSE IF v = PInf THEN <<"I", "n", "f", "i", "n", "i", "t", "y">>
  ELSE IF v = NInf THEN <<"-", "I", "n", "f", "i", "n", "i", "t", "y">>
  ELSE IF v.n < 0 THEN <<"-">> \o NatToString16(-v.n)
  ELSE NatToString16(v.n)

\* ('0' + s).slice(-2)
Slice2(s) == LET t == <<"0">> \o s IN SubSeq(t, Len(t) - 1, Len(t))

Result(status, kind, triple, hex) ==
  [status |-> status, kind |-> kind, triple |-> triple, hex |-> hex]

\* a formatter whose last branch falls back to RGB instead of throwing
FormatColorSilentDefault(doubleVal, format) ==
  LET rgbVal == [i \in 1..3 |-> MathRound(Mul(Int2Num(255), doubleVal[i]))]
      hexVal == [i \in 1..3 |-> Slice2(ToString16(rgbVal[i]))]
  IN IF format = DOUBLE THEN Result("ok", DOUBLE, doubleVal, <<>>)
     ELSE IF format = HEX THEN
       Result("ok", HEX, <<>>, <<"#">> \o hexVal[1] \o hexVal[2] \o hexVal[3])
     ELSE Result("ok", RGB, rgbVal, <<>>)

FormatColor(doubleVal, format) ==
  LET rgbVal == [i \in 1..3 |-> MathRound(Mul(Int2Num(255), doubleVal[i]))]
      hexVal == [i \in 1..3 |-> Slice2(ToString16(rgbVal[i]))]
  IN IF format = DOUBLE THEN Result("ok", DOUBLE, doubleVal, <<>>)
     ELSE IF format = RGB THEN Result("ok", RGB, rgbVal, <<>>)
     ELSE IF format = HEX THEN
       Result("ok", HEX, <<>>, <<"#">> \o hexVal[1] \o hexVal[2] \o hexVal[3])
     ELSE Result("InvalidFormat", "none", <<>>, <<>>)

----------------------------------------------------------------------------
(* Interpolation *)

EnforceBounds(x) ==
  IF Lt(x, Zero) THEN Zero
  ELSE IF Lt(One, x) THEN One
  ELSE x

\* the triplet lookupColor reads at index i
ColorAt(rv, gv, bv, i) == <<Get(rv, i), Get(gv, i), Get(bv, i)>>

LookupColor(rv, gv, bv, i, format) == FormatColor(ColorAt(rv, gv, bv, i), format)

\* a scaling that forgets to shift by the range minimum
ScaleInputUnshifted(val, range) == Div(val, Sub(range[2], range[1]))

\* a scaling by the width of the range, which loses its direction
ScaleInputAbsWidth(val, range) ==
  Div(Sub(val, range[1]), MathAbs(Sub(range[2], range[1])))

\* x = (val - x_range[0]) / (x_range[1] - x_range[0])
ScaleInput(val, range) == Div(Sub(val, range[1]), Sub(range[2], range[1]))

\* while (x_values[iLo] > x && iLo > 0) iLo--
RECURSIVE WalkLo(_, _, _)
WalkLo(xv, x, iLo) ==
  IF Lt(x, Get(xv, iLo)) /\ Lt(Zero, iLo) THEN WalkLo(xv, x, Sub(iLo, One))
  ELSE iLo

\* while (x_values[iHi] < x && iHi < iMax) iHi++
RECURSIVE WalkHi(_, _, _, _)
WalkHi(xv, x, iHi, iMax) ==
  IF Lt(Get(xv, iHi), x) /\ Lt(iHi, iMax) THEN WalkHi(xv, x, Add(iHi, One), iMax)
  ELSE iHi

\* console.assert(iHi = iLo + 1): the argument is an assignment, so the
\* upper index used from here on is iLo + 1 whatever the scan found
AssertHi(iLo, iHi) == Add(iLo, One)

\* one blended channel, before the clamp
BlendChannel(cv, iLo, iHi, scaling_factor) ==
  Add(Get(cv, iLo), Mul(scaling_factor, Sub(Get(cv, iHi), Get(cv, iLo))))

Outcome(res, path, x, iLo, iHi, dbl) ==
  [status |-> res.status, kind |-> res.kind, triple |-> res.triple,
   hex |-> res.hex, path |-> path, x |-> x, iLo |-> iLo, iHi |-> iHi,
   dbl |-> dbl]

\* interpolateColor from "Scale input value" on, over non-null arrays.
\* colorLo and colorHi of the source are computed and never used.
Interpolate(xv, rv, gv, bv, range, val, format) ==
  LET x == ScaleInput(val, range)
      iMax == Int2Num(Len(xv) - 1)
      iLo == WalkLo(xv, x, MathCeil(Mul(x, iMax)))
      iHi == WalkHi(xv, x, iLo, iMax)
      hi == AssertHi(iLo, iHi)
      width == MathAbs(Sub(Get(xv, hi), Get(xv, iLo)))
      scaling_factor == Div(Sub(x, Get(xv, iLo)), width)
      doubleResult ==
        << EnforceBounds(BlendChannel(rv, iLo, hi, scaling_factor)),
           EnforceBounds(BlendChannel(gv, iLo, hi, scaling_factor)),
           EnforceBounds(BlendChannel(bv, iLo, hi, scaling_factor)) >>
  IN IF Le(x, Zero) THEN
       Outcome(LookupColor(rv, gv, bv, Zero, format), "low", x, Zero, Zero,
               ColorAt(rv, gv, bv, Zero))
     ELSE IF Le(One, x) THEN
       Outcome(LookupColor(rv, gv, bv, iMax, format), "high", x, iMax, iMax,
               ColorAt(rv, gv, bv, iMax))
     ELSE IF StrictEq(iLo, iHi) THEN
       Outcome(LookupColor(rv, gv, bv, iLo, format), "exact", x, iLo, iHi,
               ColorAt(rv, gv, bv, iLo))
     ELSE
       Outcome(FormatColor(doubleResult, format), "blend", x, iLo, iHi,
               doubleResult)

----------------------------------------------------------------------------
(* Inputs the operations are driven with *)

\* positions are multiples of 1 / PosDen
PosDen == 12

\* number of colour ramps a raw series can be painted with
NumRamps == 2

\* the colours of smallSeries in the tests
SmallColors ==
  << <<Rat(0, 10), Rat(6, 10), Rat(55, 100)>>,
     <<Rat(2, 10), Rat(4, 10), Rat(54, 100)>>,
     <<Rat(4, 10), Rat(2, 10), Rat(53, 100)>>,
     <<Rat(6, 10), Rat(2, 10), Rat(52, 100)>>,
     <<Rat(8, 10), Rat(4, 10), Rat(51, 100)>>,
     <<Rat(10, 10), Rat(6, 10), Rat(50, 100)>> >>

\* colours with channels outside [0, 1], which the loader does not reject
WildColors ==
  << <<Rat(3, 2), Rat(-1, 2), Rat(1, 2)>>,
     <<Rat(0, 1), Rat(2, 1), Rat(1, 4)>>,
     <<Rat(-1, 1), Rat(1, 1), Rat(5, 4)>> >>

\* colour of the i-th point under ramp k: ramp 2 is out of spec, the others
\* are smallSeries' colours starting at an offset
RampColor(k, i) ==
  IF k = 2 THEN WildColors[((i - 1) % Len(WildColors)) + 1]
  ELSE SmallColors[((i + k - 2) % Len(SmallColors)) + 1]

RECURSIVE SortedSeq(_)
SortedSeq(S) ==
  IF S = {} THEN <<>>
  ELSE LET m == CHOOSE a \in S : \A b \in S : a <= b
       IN <<m>> \o SortedSeq(S \ {m})

\* position lists that satisfy the series invariants: 0 first, 1 last,
\* strictly increasing, uniformly spaced or not
ValidPositionLists ==
  { SortedSeq({0, PosDen} \cup S) : S \in SUBSET {1, 2, 3, PosDen \div 2} }

\* position lists the unvalidating loader accepts all the same: empty, one
\* point, a duplicate position, a decreasing step
InvalidPositionLists ==
  { <<>>, <<0>>, <<0, PosDen \div 2, PosDen \div 2, PosDen>>, <<0, PosDen \div 2, 3, PosDen>> }

PositionLists == ValidPositionLists \cup InvalidPositionLists

\* a malformed entry (one that lacks its colour triplet), if any, is among
\* the first MaxBad entries
MaxBad == 2

\* the raw series with positions ps painted by ramp k; bad > 0 makes entry
\* bad lack its colour triplet
RawSeries(ps, k, bad) ==
  [i \in 1..Len(ps) |->
     [x |-> Rat(ps[i], PosDen), hasColor |-> (i # bad), c |-> RampColor(k, i)]]

\* input scalars: the grid of positions and one step outside it
Values == { Rat(k, PosDen) : k \in -1..(PosDen + 1) }

Ranges ==
  { <<Zero, One>>, <<One, Zero>>, <<Rat(1, 4), Rat(5, 6)>>, <<One, One>> }

\* format arguments: the three selectors, no argument, an unknown selector
FormatArgs == ColorFormat \cup {"omitted", "cmyk"}

\* series names: registered, unknown, and a member of Object.prototype
Names == {"rainbow", "viridis", "toString"}

----------------------------------------------------------------------------
(* The state machine *)

NoOutcome ==
  [status |-> "none", kind |-> "none", triple |-> <<>>, hex |-> <<>>,
   path |-> "none", x |-> NaN, iLo |-> NaN, iHi |-> NaN, dbl |-> <<>>]

\* the call that has just returned to the caller and how it ended; Idle
\* once the caller has taken the result and is free to make the next call
Call(op, status, name, val, format, wasNull, out) ==
  [op |-> op, status |-> status, name |-> name, val |-> val,
   format |-> format, wasNull |-> wasNull, out |-> out]

Idle == Call("idle", "none", "", NaN, "none", FALSE, NoOutcome)

\* History variable: what the calls made on the instance so far asked for,
\* as long as every one of them returned normally: whether a series was
\* loaded (any), the series handed to the most recent load, and the range
\* handed to the most recent setInputRange.  Void once a call has thrown.
Void == [valid |-> FALSE, any |-> FALSE, series |-> <<>>, range |-> <<Zero, One>>]

NoCalls == [valid |-> TRUE, any |-> FALSE, series |-> <<>>, range |-> <<Zero, One>>]

AfterCall(status) == IF history.valid /\ status = "ok" THEN history ELSE Void

AfterLoad(values, status) ==
  IF history.valid /\ status = "ok"
  THEN [history EXCEPT !.any = TRUE, !.series = values]
  ELSE Void

AfterRange(range) ==
  IF history.valid THEN [history EXCEPT !.range = range] ELSE Void

\* new ColorMap(colorSeriesName): an unknown name throws out of the
\* constructor and leaves no instance
Init ==
  \E name \in {""} \cup { n \in Names : InColorSeriesTable(n) } :
    LET s == InputColorSeries(ColorSeriesTable(name))
    IN /\ x_values = IF name = "" THEN Null ELSE Arr(s.x)
       /\ r_values = IF name = "" THEN Null ELSE Arr(s.r)
       /\ g_values = IF name = "" THEN Null ELSE Arr(s.g)
       /\ b_values = IF name = "" THEN Null ELSE Arr(s.b)
       /\ x_range = <<Zero, One>>
       /\ last = Call("constructor", "ok", name, NaN, "none", FALSE, NoOutcome)
       /\ history = IF name = "" THEN NoCalls
                    ELSE [NoCalls EXCEPT !.any = TRUE,
                                         !.series = ColorSeriesTable(name)]

setInputRange(range) ==
  /\ last = Idle
  /\ x_range' = range
  /\ last' = Call("setInputRange", "ok", "", NaN, "none", FALSE, NoOutcome)
  /\ history' = AfterRange(range)
  /\ UNCHANGED store

inputColorSeries(values) ==
  LET s == InputColorSeries(values)
  IN /\ last = Idle
     /\ x_values' = Arr(s.x)
     /\ r_values' = Arr(s.r)
     /\ g_values' = Arr(s.g)
     /\ b_values' = Arr(s.b)
     /\ last' = Call("inputColorSeries", s.status, "", NaN, "none", FALSE, NoOutcome)
     /\ history' = AfterLoad(values, s.status)
     /\ UNCHANGED x_range

useColorSeries(name) ==
  IF ~InColorSeriesTable(name) THEN
    /\ last = Idle
    /\ last' = Call("useColorSeries", "NotFound", name, NaN, "none", FALSE, NoOutcome)
    /\ history' = AfterCall("NotFound")
    /\ UNCHANGED <<store, x_range>>
  ELSE
    LET s == InputColorSeries(ColorSeriesTable(name))
    IN /\ last = Idle
       /\ x_values' = Arr(s.x)
       /\ r_values' = Arr(s.r)
       /\ g_values' = Arr(s.g)
       /\ b_values' = Arr(s.b)
       /\ last' = Call("useColorSeries", s.status, name, NaN, "none", FALSE, NoOutcome)
       /\ history' = AfterLoad(ColorSeriesTable(name), s.status)
       /\ UNCHANGED x_range

\* no default series: the arrays are created and left empty
FallbackSeriesEmpty(xv) == <<>>

\* the series interpolateColor works on: rainbow when x_values is null
FallbackSeries(xv) == IF xv.isNull THEN rainbow ELSE <<>>

interpolateColor(val, formatArg) ==
  LET format == IF formatArg = "omitted" THEN RGB ELSE formatArg
      s == InputColorSeries(FallbackSeries(x_values))
      xv == IF x_values.isNull THEN Arr(s.x) ELSE x_values
      rv == IF x_values.isNull THEN Arr(s.r) ELSE r_values
      gv == IF x_values.isNull THEN Arr(s.g) ELSE g_values
      bv == IF x_values.isNull THEN Arr(s.b) ELSE b_values
      out == Interpolate(xv.arr, rv.arr, gv.arr, bv.arr, x_range, val, format)
  IN /\ last = Idle
     /\ x_values' = xv
     /\ r_values' = rv
     /\ g_values' = gv
     /\ b_values' = bv
     /\ last' = Call("interpolateColor", out.status, "", val, formatArg,
                     x_values.isNull, out)
     /\ history' = IF history.any THEN AfterCall(out.status)
                   ELSE AfterLoad(rainbow, out.status)
     /\ UNCHANGED x_range

\* the caller takes the return value or the exception of the call
returnToCaller ==
  /\ last # Idle
  /\ last' = Idle
  /\ UNCHANGED <<store, x_range, history>>

Next ==
  \/ \E range \in Ranges : setInputRange(range)
  \/ \E ps \in PositionLists, k \in 1..NumRamps, bad \in 0..MaxBad :
       bad <= Len(ps) /\ inputColorSeries(RawSeries(ps, k, bad))
  \/ \E name \in Names : useColorSeries(name)
  \/ \E val \in Values, formatArg \in FormatArgs : interpolateColor(val, formatArg)
  \/ returnToCaller

Spec == Init /\ [][Next]_vars

----------------------------------------------------------------------------
(* Vocabulary of the properties *)

X == x_values.arr
R == r_values.arr
G == g_values.arr
B == b_values.arr

\* interpolateColor has just returned (a value or an exception)
Interpolated == last.op = "interpolateColor"

\* the format interpolateColor worked with
EffFormat == IF last.format = "omitted" THEN RGB ELSE last.format

\* the store holds a whole series: four arrays of one length, not empty
WholeSeries ==
  /\ ~x_values.isNull
  /\ Len(X) >= 1
  /\ Len(R) = Len(X) /\ Len(G) = Len(X) /\ Len(B) = Len(X)

\* the position part of the Color Series invariants
PositionsOK ==
  /\ WholeSeries
  /\ Len(X) >= 2
  /\ X[1] = Zero
  /\ X[Len(X)] = One
  /\ \A i \in 1..(Len(X) - 1) : Lt(X[i], X[i + 1])

InUnit(c) == Le(Zero, c) /\ Le(c, One)

ChannelsOK ==
  \A i \in 1..Len(X) : InUnit(R[i]) /\ InUnit(G[i]) /\ InUnit(B[i])

SeriesOK == PositionsOK /\ ChannelsOK

ProperRange == x_range[1] # x_range[2]

\* the stored colour of control point k (1-based)
Stored(k) == <<R[k], G[k], B[k]>>

\* the colours at index 0 and at index count - 1, count being the number
\* of positions; undefined channels where the store has no such entry
FirstColor == ColorAt(R, G, B, Zero)
LastColor == ColorAt(R, G, B, Int2Num(Len(X) - 1))

\* round(255 * c), stated by its defining inequality: the integer b with
\* b - 1/2 <= 255 c < b + 1/2
IsByteOf(b, c) ==
  /\ IsFinite(b) /\ b.d = 1
  /\ 2 * b.n * c.d - c.d <= 510 * c.n
  /\ 510 * c.n < 2 * b.n * c.d + c.d

HexValue(ch) == CHOOSE k \in 0..15 : HexDigits[k + 1] = ch

HexChars == { HexDigits[k] : k \in 1..16 }

\* the outcome of a call in the given format that returns colour c
Returns(c) ==
  /\ last.out.status = "ok"
  /\ EffFormat = DOUBLE => last.out.triple = c
  /\ EffFormat = RGB =>
       /\ Len(last.out.triple) = 3
       /\ \A i \in 1..3 : IsByteOf(last.out.triple[i], c[i])
  /\ EffFormat = HEX =>
       /\ Len(last.out.hex) = 7
       /\ last.out.hex[1] = "#"
       /\ \A i \in 1..3 :
            /\ last.out.hex[2 * i] \in HexChars
            /\ last.out.hex[2 * i + 1] \in HexChars
            /\ IsByteOf(Int2Num(16 * HexValue(last.out.hex[2 * i])
                               + HexValue(last.out.hex[2 * i + 1])), c[i])

\* the call answers with stored colour c: c is the triplet handed to the
\* formatter, returned as it is as FRACTION, and encoded as BYTE or HEX
\* when its channels are in [0, 1]
Selects(c) ==
  /\ last.out.status = "ok"
  /\ last.out.dbl = c
  /\ EffFormat = DOUBLE => last.out.triple = c
  /\ (\A i \in 1..3 : InUnit(c[i])) => Returns(c)

----------------------------------------------------------------------------
(* C1: on a series that satisfies the Color Series invariants, a value    *)
(* whose normalized position equals the position of control point k is    *)
(* answered with the stored colour of point k (FRACTION) or with          *)
(* round(255 * colour) (BYTE).                                             *)
C1_ExactHit ==
  (Interpolated /\ SeriesOK /\ ProperRange /\ EffFormat \in {DOUBLE, RGB}) =>
    \A k \in 1..Len(X) : last.out.x = X[k] => Returns(Stored(k))

\* the index j with position[j] <= x < position[j+1]
RefBracket(x) ==
  CHOOSE j \in 1..(Len(X) - 1) : Le(X[j], x) /\ Lt(x, X[j + 1])

\* c[j] + t * (c[j+1] - c[j]) with t = (x - position[j]) / (position[j+1] - position[j])
RefLinear(cv, x) ==
  LET j == RefBracket(x)
      t == Div(Sub(x, X[j]), Sub(X[j + 1], X[j]))
  IN Add(cv[j], Mul(t, Sub(cv[j + 1], cv[j])))

(* C2: on a series that satisfies the Color Series invariants, for        *)
(* 0 < x < 1 the FRACTION result is the linear interpolation between the  *)
(* two control points that bracket x.                                      *)
C2_PiecewiseLinear ==
  ( /\ Interpolated /\ SeriesOK /\ ProperRange /\ EffFormat = DOUBLE
    /\ Lt(Zero, last.out.x) /\ Lt(last.out.x, One) ) =>
    last.out.triple =
      <<RefLinear(R, last.out.x), RefLinear(G, last.out.x), RefLinear(B, last.out.x)>>

(* C3 as stated: for any input range with min # max, a value <= min is    *)
(* answered with the first control point's colour and a value >= max      *)
(* with the last one's.                                                    *)
C3_ClampLawAnyRange ==
  (Interpolated /\ ProperRange /\ EffFormat \in ColorFormat) =>
    /\ Le(last.val, x_range[1]) => Selects(FirstColor)
    /\ Le(x_range[2], last.val) => Selects(LastColor)

(* C3 amended: for any input range with min < max, a value <= min is      *)
(* answered with the first control point's colour and a value >= max      *)
(* with the last one's; for min > max the comparisons are reversed: a     *)
(* value >= min gets the first colour and a value <= max the last one.    *)
C3_ClampLaw ==
  (Interpolated /\ EffFormat \in ColorFormat) =>
    /\ Lt(x_range[1], x_range[2]) =>
         /\ Le(last.val, x_range[1]) => Selects(FirstColor)
         /\ Le(x_range[2], last.val) => Selects(LastColor)
    /\ Lt(x_range[2], x_range[1]) =>
         /\ Le(x_range[1], last.val) => Selects(FirstColor)
         /\ Le(last.val, x_range[2]) => Selects(LastColor)

\* a value strictly below the minimum of a range that was set, and the
\* out-of-spec ramp answered by its first colour
C3_Witness ==
  /\ Interpolated /\ WholeSeries /\ Len(X) >= 3
  /\ x_range = <<Rat(1, 4), Rat(5, 6)>>
  /\ Lt(last.val, x_range[1])
  /\ EffFormat = DOUBLE
  /\ last.out.triple = Stored(1)
  /\ last.out.triple # Stored(Len(X))

(* C4: for any loaded series, channels out of [0,1] included, and any     *)
(* range with min # max, every channel of a FRACTION result lies in       *)
(* [0, 1].                                                                 *)
C4_FractionInUnit ==
  ( /\ Interpolated /\ PositionsOK /\ ProperRange /\ EffFormat = DOUBLE
    /\ last.out.status = "ok" ) =>
    \A i \in 1..3 : InUnit(last.out.triple[i])

\* the same store asked for a + b - v under the swapped range (b, a)
Mirror ==
  Interpolate(X, R, G, B, <<x_range[2], x_range[1]>>,
              Sub(Add(x_range[1], x_range[2]), last.val), EffFormat)

\* what the caller receives
Answer(out) == <<out.status, out.kind, out.triple, out.hex>>

(* C5: interpolate(v) under range (a, b) equals interpolate(a + b - v)    *)
(* under range (b, a); under a range with a > b the value a is answered   *)
(* with the first control point's colour and b with the last one's.       *)
C5_InvertedRange ==
  (Interpolated /\ ProperRange) =>
    /\ Answer(last.out) = Answer(Mirror)
    /\ (EffFormat \in ColorFormat /\ Lt(x_range[2], x_range[1])) =>
         /\ last.val = x_range[1] => Selects(FirstColor)
         /\ last.val = x_range[2] => Selects(LastColor)

\* under the inverted range (1, 0) the value 0 gets the last colour
C5_Witness ==
  /\ Interpolated /\ SeriesOK
  /\ x_range = <<One, Zero>>
  /\ last.val = Zero
  /\ EffFormat = DOUBLE
  /\ last.out.triple = Stored(Len(X))
  /\ last.out.triple # Stored(1)

(* C6: a fraction triplet with every channel in [0,1] is returned         *)
(* unchanged as FRACTION, as round(255 * channel) in 0..255 as BYTE, and  *)
(* as '#' plus three zero-padded two-digit lowercase hexadecimal bytes    *)
(* (7 characters) as HEX.                                                  *)
C6_FormatConversion ==
  ( /\ Interpolated /\ EffFormat \in ColorFormat
    /\ \A i \in 1..3 : InUnit(last.out.dbl[i]) ) =>
    /\ Returns(last.out.dbl)
    /\ EffFormat = RGB =>
         \A i \in 1..3 : last.out.triple[i].n \in 0..255
    /\ EffFormat = DOUBLE => last.out.hex = <<>>
    /\ EffFormat = HEX => last.out.triple = <<>>

\* a tie (255 * 1/2 = 127.5 gives 128 = 0x80) and a zero-padded byte
C6_Witness ==
  /\ Interpolated
  /\ EffFormat = HEX
  /\ last.out.dbl = <<Rat(1, 2), Zero, One>>
  /\ last.out.hex = <<"#", "8", "0", "0", "0", "f", "f">>

(* C7: a format selector that is none of the three ends interpolate in    *)
(* InvalidFormat on every path, and no colour is returned.                 *)
C7_InvalidFormat ==
  (Interpolated /\ last.format \notin ColorFormat \cup {"omitted"}) =>
    /\ last.status = "InvalidFormat"
    /\ last.out.status = "InvalidFormat"
    /\ last.out.triple = <<>>
    /\ last.out.hex = <<>>

\* the unknown selector reaches the formatter at the end of the blend path
C7_Witness ==
  /\ Interpolated /\ SeriesOK
  /\ last.format = "cmyk"
  /\ last.out.path = "blend"
  /\ last.status = "InvalidFormat"

(* C8: useColorSeries with a name that is not registered fails with       *)
(* NotFound and leaves the four sequences and the input range unchanged.  *)
C8_UnknownName ==
  [][ (last'.op = "useColorSeries" /\ last'.name \notin ListColorSeries) =>
        (last'.status = "NotFound" /\ UNCHANGED <<store, x_range>>) ]_vars

(* C9: an operation that ends in an error leaves the four sequences and   *)
(* the input range as they were before the call.                           *)
C9_FailureAtomicity ==
  [][ (last'.status \notin {"ok", "none"}) => UNCHANGED <<store, x_range>> ]_vars

\* the four lists of a store on which useColorSeries('rainbow') was called
RainbowStore == InputColorSeries(ColorSeriesTable("rainbow"))

(* C10: on a store that holds no series, interpolate with a valid format  *)
(* succeeds with the result of a store that loaded 'rainbow' first,       *)
(* leaves the rainbow series in the store and the input range unchanged.  *)
C10_AutoLoad ==
  [][ ( /\ last'.op = "interpolateColor"
        /\ x_values.isNull
        /\ last'.format \in ColorFormat \cup {"omitted"} ) =>
      ( /\ last'.status = "ok"
        /\ x_range' = x_range
        /\ store' = <<Arr(RainbowStore.x), Arr(RainbowStore.r),
                      Arr(RainbowStore.g), Arr(RainbowStore.b)>>
        /\ last'.out =
             Interpolate(RainbowStore.x, RainbowStore.r, RainbowStore.g,
                         RainbowStore.b, x_range, last'.val,
                         IF last'.format = "omitted" THEN RGB ELSE last'.format) ) ]_vars

\* the fallback has acted under a range that was set, on the blend path
C10_Witness ==
  /\ Interpolated /\ last.wasNull
  /\ last.status = "ok"
  /\ x_range = <<Rat(1, 4), Rat(5, 6)>>
  /\ last.out.path = "blend"
  /\ X = RainbowStore.x

\* the blend factor of the call that has just returned, from the indices
\* the blend read: scaling_factor = (x - position[iLo]) / width
BlendFactor ==
  LET iLo == last.out.iLo
      iHi == AssertHi(last.out.iLo, last.out.iHi)
  IN Div(Sub(last.out.x, Get(X, iLo)), MathAbs(Sub(Get(X, iHi), Get(X, iLo))))

(* C11: on a series that satisfies the Color Series invariants, for       *)
(* 0 < x < 1 the scan ends either with iLo = iHi and position[iLo] = x,   *)
(* or with iHi = iLo + 1 and position[iLo] <= x <= position[iHi], and     *)
(* then the blend factor lies in [0, 1].                                  *)
C11_BracketPostcondition ==
  ( /\ Interpolated /\ SeriesOK /\ ProperRange
    /\ Lt(Zero, last.out.x) /\ Lt(last.out.x, One) ) =>
    \/ /\ last.out.iLo = last.out.iHi
       /\ Get(X, last.out.iLo) = last.out.x
    \/ /\ last.out.iHi = Add(last.out.iLo, One)
       /\ Le(Get(X, last.out.iLo), last.out.x)
       /\ Le(last.out.x, Get(X, last.out.iHi))
       /\ InUnit(BlendFactor)

(* C12: after any sequence of calls that all returned normally, the four  *)
(* arrays have one length and hold, in order, the positions and the red,  *)
(* green and blue values of the most recently loaded series and nothing   *)
(* else (no arrays at all if nothing was loaded), and the input range is  *)
(* the one passed to the most recent setInputRange, or [0.0, 1.0] if      *)
(* there was none: a load leaves the range, setInputRange leaves the      *)
(* series, and interpolate on a store that holds a series leaves both.    *)
C12_StoreReflectsLastLoad ==
  history.valid =>
    /\ x_range = history.range
    /\ ~history.any => store = <<Null, Null, Null, Null>>
    /\ history.any =>
         /\ \A a \in {x_values, r_values, g_values, b_values} :
              ~a.isNull /\ Len(a.arr) = Len(history.series)
         /\ \A i \in 1..Len(history.series) :
              /\ X[i] = history.series[i].x
              /\ <<R[i], G[i], B[i]>> = history.series[i].c

\* a 2-point series, shorter than the built-in one, was loaded, a range
\* was set, and interpolateColor has returned a colour
C12_Witness ==
  /\ Interpolated /\ last.status = "ok"
  /\ history.valid /\ history.any
  /\ Len(history.series) = 2
  /\ history.range = <<Rat(1, 4), Rat(5, 6)>>
  /\ last.out.path = "blend"

====
